---- MODULE Spec2Model ----
(***************************************************************************)
(* RepoTokenizerClient (sdk/python/client.py): a synchronous HTTP client.  *)
(* Each public method builds a request path with a query string, hands it  *)
(* to _request, which issues one GET through urllib and decodes the JSON   *)
(* body.                                                                   *)
(*                                                                         *)
(* Text is a sequence of one-character strings; bytes are integers 0..255. *)
(* Python values are tagged records: None, str, int.                       *)
(***************************************************************************)
EXTENDS Integers, Sequences, FiniteSets, TLC

VARIABLES
    base_url, headers,      \* the client object's fields
    base_url0, headers0,    \* their values at construction (history)
    completed,              \* calls that have returned so far (history)
    pc,                     \* "idle", "waiting" (inside urlopen) or "done"
    call,                   \* the method being executed and its arguments
    params, path, url,      \* locals of the method and of _request
    req_headers,            \* headers of the Request object
    sent,                   \* GET requests issued by the current call
    status, body,           \* the response urlopen returned
    body_read,              \* whether resp.read() was called
    outcome                 \* how the call ends

vars == <<base_url, headers, base_url0, headers0, completed,
          pc, call, params, path, url, req_headers,
          sent, status, body, body_read, outcome>>

config == <<base_url, headers, base_url0, headers0>>

\* ------------------------------------------------------------------ text

Range(s) == {s[i] : i \in 1..Len(s)}

RECURSIVE Join(_, _)
Join(ss, sep) ==
    IF ss = <<>> THEN <<>>
    ELSE IF Len(ss) = 1 THEN ss[1]
    ELSE ss[1] \o sep \o Join(Tail(ss), sep)

\* The printable ASCII characters in code order: Printable[i] has code 31 + i
\* (the grave accent, code 96, cannot be written in a string and is spelled out).
Printable == <<
    " ", "!", "\"", "#", "$", "%", "&", "'", "(", ")", "*", "+",
    ",", "-", ".", "/", "0", "1", "2", "3", "4", "5", "6", "7",
    "8", "9", ":", ";", "<", "=", ">", "?", "@", "A", "B", "C",
    "D", "E", "F", "G", "H", "I", "J", "K", "L", "M", "N", "O",
    "P", "Q", "R", "S", "T", "U", "V", "W", "X", "Y", "Z", "[",
    "\\", "]", "^", "_", "GRAVE", "a", "b", "c", "d", "e", "f", "g",
    "h", "i", "j", "k", "l", "m", "n", "o", "p", "q", "r", "s",
    "t", "u", "v", "w", "x", "y", "z", "{", "|", "}", "~" >>

\* One character outside ASCII, to exercise multi-byte UTF-8.
EAcute == "é"

Ord(c) ==
    IF c = EAcute THEN 233
    ELSE 31 + (CHOOSE i \in 1..Len(Printable) : Printable[i] = c)

HexDigits == <<"0","1","2","3","4","5","6","7","8","9","A","B","C","D","E","F">>

\* str.encode("utf-8") of one character, for code points below 0x800.
Utf8(cp) ==
    IF cp < 128 THEN <<cp>>
    ELSE <<192 + (cp \div 64), 128 + (cp % 64)>>

\* bytes.decode("utf-8"): the text, or the failure UnicodeDecodeError.
DecodeError == [ok |-> FALSE]
RECURSIVE Utf8Decode(_)
Utf8Decode(bs) ==
    IF bs = <<>> THEN [ok |-> TRUE, text |-> <<>>]
    ELSE LET b == Head(bs) IN
         IF b < 128 THEN
            IF b < 32 \/ b > 126 THEN DecodeError  \* control bytes: never in a modelled body
            ELSE LET rest == Utf8Decode(Tail(bs)) IN
                 IF rest.ok THEN [ok |-> TRUE, text |-> <<Printable[b - 31]>> \o rest.text]
                 ELSE DecodeError
         ELSE IF b >= 194 /\ b <= 223 /\ Len(bs) >= 2 /\ bs[2] >= 128 /\ bs[2] <= 191 THEN
            LET cp == (b - 192) * 64 + (bs[2] - 128)
                rest == Utf8Decode(Tail(Tail(bs)))
            IN IF cp = Ord(EAcute) /\ rest.ok
               THEN [ok |-> TRUE, text |-> <<EAcute>> \o rest.text]
               ELSE DecodeError
         ELSE DecodeError

\* ------------------------------------------------------------ Python values

PyNone == [t |-> "none"]
PyStr(s) == [t |-> "str", s |-> s]
PyInt(n) == [t |-> "int", n |-> n]

\* Python truth value of an argument: `if v`.
Truthy(v) ==
    CASE v.t = "none" -> FALSE
      [] v.t = "str" -> v.s # <<>>
      [] v.t = "int" -> v.n # 0

\* `v is not None`.
IsNotNone(v) == v.t # "none"

\* str(n) for an integer.
RECURSIVE NatToStr(_)
NatToStr(n) ==
    IF n < 10 THEN <<HexDigits[n + 1]>>
    ELSE NatToStr(n \div 10) \o <<HexDigits[(n % 10) + 1]>>

IntToStr(n) == IF n < 0 THEN <<"-">> \o NatToStr(0 - n) ELSE NatToStr(n)

\* str(v) as urlencode applies it to a key or value.
ToStr(v) == IF v.t = "int" THEN IntToStr(v.n) ELSE v.s

\* ------------------------------------------------------------ urllib.parse

\* urllib.parse._ALWAYS_SAFE: letters, digits and "_.-~".
AlwaysSafe ==
    {Printable[i] : i \in 34..59} \cup {Printable[i] : i \in 66..91}
    \cup {Printable[i] : i \in 17..26} \cup {"_", ".", "-", "~"}

PercentByte(b) == <<"%", HexDigits[(b \div 16) + 1], HexDigits[(b % 16) + 1]>>

RECURSIVE PercentBytes(_)
PercentBytes(bs) ==
    IF bs = <<>> THEN <<>> ELSE PercentByte(Head(bs)) \o PercentBytes(Tail(bs))

\* parse.quote(s, safe): every character outside _ALWAYS_SAFE and `safe` is
\* replaced by the %XX escapes of its UTF-8 bytes.
RECURSIVE quote_safe(_, _)
quote_safe(s, safe) ==
    IF s = <<>> THEN <<>>
    ELSE (IF Head(s) \in AlwaysSafe \cup safe
          THEN <<Head(s)>>
          ELSE PercentBytes(Utf8(Ord(Head(s)))))
         \o quote_safe(Tail(s), safe)

\* parse.quote(s): the default safe set is "/".
quote(s) == quote_safe(s, {"/"})

\* parse.quote_plus(s): spaces become "+", nothing else is safe.
quote_plus(s) ==
    IF " " \notin Range(s) THEN quote_safe(s, {})
    ELSE LET q == quote_safe(s, {" "}) IN
         [i \in 1..Len(q) |-> IF q[i] = " " THEN "+" ELSE q[i]]

\* parse.urlencode(params) for a dict given as its items in insertion order.
urlencode(items) ==
    Join([i \in 1..Len(items) |->
             quote_plus(ToStr(items[i][1])) \o <<"=">> \o quote_plus(ToStr(items[i][2]))],
         <<"&">>)

\* ------------------------------------------------------------ json.loads

\* Decoded JSON values. JSON null decodes to Python None.
JNull == [j |-> "null"]
JBool(b) == [j |-> "bool", b |-> b]
JInt(n) == [j |-> "int", n |-> n]
JStr(s) == [j |-> "str", s |-> s]
JList(items) == [j |-> "list", items |-> items]
JDict(pairs) == [j |-> "dict", pairs |-> pairs]

ParseFail == [ok |-> FALSE]
ParseOk(v, next) == [ok |-> TRUE, val |-> v, next |-> next]

At(s, i) == IF i >= 1 /\ i <= Len(s) THEN s[i] ELSE "EOF"

IsDigit(c) == \E d \in 1..10 : HexDigits[d] = c
DigitValue(c) == (CHOOSE d \in 1..10 : HexDigits[d] = c) - 1

\* The scanner's whitespace skip (of the JSON whitespace, only the space is modelled).
RECURSIVE SkipWs(_, _)
SkipWs(s, i) == IF At(s, i) = " " THEN SkipWs(s, i + 1) ELSE i

Literal(s, i, word) ==
    i + Len(word) - 1 <= Len(s) /\ SubSeq(s, i, i + Len(word) - 1) = word

\* A string without escapes: from the opening quote at i to the closing quote.
RECURSIVE StringEnd(_, _)
StringEnd(s, i) ==
    IF i > Len(s) THEN 0
    ELSE IF s[i] = "\"" THEN i
    ELSE IF s[i] = "\\" THEN 0
    ELSE StringEnd(s, i + 1)

ParseString(s, i) ==
    LET e == StringEnd(s, i + 1) IN
    IF At(s, i) # "\"" \/ e = 0 THEN ParseFail
    ELSE ParseOk(SubSeq(s, i + 1, e - 1), e + 1)

RECURSIVE ParseDigits(_, _, _)
ParseDigits(s, i, acc) ==
    IF IsDigit(At(s, i)) THEN ParseDigits(s, i + 1, acc * 10 + DigitValue(s[i]))
    ELSE ParseOk(acc, i)

\* An integer: "-"? ("0" | [1-9][0-9]*).
ParseNat(s, i) ==
    IF ~IsDigit(At(s, i)) THEN ParseFail
    ELSE IF s[i] = "0" THEN ParseOk(0, i + 1)
    ELSE ParseDigits(s, i, 0)

ParseNumber(s, i) ==
    IF At(s, i) = "-"
    THEN LET r == ParseNat(s, i + 1) IN
         IF r.ok THEN ParseOk(JInt(0 - r.val), r.next) ELSE ParseFail
    ELSE LET r == ParseNat(s, i) IN
         IF r.ok THEN ParseOk(JInt(r.val), r.next) ELSE ParseFail

RECURSIVE ParseValue(_, _), ParseElements(_, _, _), ParseMembers(_, _, _)
ParseValue(s, i) ==
    LET c == At(s, i) IN
    CASE c = "n" -> IF Literal(s, i, <<"n","u","l","l">>)
                    THEN ParseOk(JNull, i + 4) ELSE ParseFail
      [] c = "t" -> IF Literal(s, i, <<"t","r","u","e">>)
                    THEN ParseOk(JBool(TRUE), i + 4) ELSE ParseFail
      [] c = "f" -> IF Literal(s, i, <<"f","a","l","s","e">>)
                    THEN ParseOk(JBool(FALSE), i + 5) ELSE ParseFail
      [] c = "\"" -> LET r == ParseString(s, i) IN
                     IF r.ok THEN ParseOk(JStr(r.val), r.next) ELSE ParseFail
      [] c = "[" -> LET j == SkipWs(s, i + 1) IN
                    IF At(s, j) = "]" THEN ParseOk(JList(<<>>), j + 1)
                    ELSE ParseElements(s, j, <<>>)
      [] c = "{" -> LET j == SkipWs(s, i + 1) IN
                    IF At(s, j) = "}" THEN ParseOk(JDict(<<>>), j + 1)
                    ELSE ParseMembers(s, j, <<>>)
      [] c = "-" \/ IsDigit(c) -> ParseNumber(s, i)
      [] OTHER -> ParseFail

ParseElements(s, i, acc) ==
    LET v == ParseValue(s, i) IN
    IF ~v.ok THEN ParseFail
    ELSE LET j == SkipWs(s, v.next) IN
         CASE At(s, j) = "," -> ParseElements(s, SkipWs(s, j + 1), Append(acc, v.val))
           [] At(s, j) = "]" -> ParseOk(JList(Append(acc, v.val)), j + 1)
           [] OTHER -> ParseFail

ParseMembers(s, i, acc) ==
    LET k == ParseString(s, i) IN
    IF ~k.ok THEN ParseFail
    ELSE LET c == SkipWs(s, k.next) IN
         IF At(s, c) # ":" THEN ParseFail
         ELSE LET v == ParseValue(s, SkipWs(s, c + 1)) IN
              IF ~v.ok THEN ParseFail
              ELSE LET j == SkipWs(s, v.next) IN
                   CASE At(s, j) = "," ->
                            ParseMembers(s, SkipWs(s, j + 1), Append(acc, <<k.val, v.val>>))
                     [] At(s, j) = "}" ->
                            ParseOk(JDict(Append(acc, <<k.val, v.val>>)), j + 1)
                     [] OTHER -> ParseFail

\* json.loads(text): the decoded value, or the failure JSONDecodeError.
json_loads(text) ==
    LET v == ParseValue(text, SkipWs(text, 1)) IN
    IF v.ok /\ SkipWs(text, v.next) > Len(text)
    THEN [ok |-> TRUE, val |-> v.val]
    ELSE [ok |-> FALSE]

\* ------------------------------------------------------------ dictionaries

\* A dict is the sequence of its items <<key, value>> in insertion order.
HasKey(d, k) == \E i \in 1..Len(d) : d[i][1] = k

\* d[k] = v: an existing key keeps its place, a new key is appended.
DictSet(d, k, v) ==
    IF HasKey(d, k)
    THEN [i \in 1..Len(d) |-> IF d[i][1] = k THEN <<k, v>> ELSE d[i]]
    ELSE Append(d, <<k, v>>)

\* {}: a new dict object on every evaluation.
EmptyDict == <<>>

\* {k: v for k, v in {...}.items() if <condition on v>}: the items are given in
\* display order as <<k, v, condition>>.
RECURSIVE Comprehension(_, _)
Comprehension(items, acc) ==
    IF items = <<>> THEN acc
    ELSE Comprehension(Tail(items),
                       IF Head(items)[3]
                       THEN DictSet(acc, Head(items)[1], Head(items)[2])
                       ELSE acc)

\* ------------------------------------------------------------ the client

\* Parameter names as they are written in the source.
k_include == PyStr(<<"i","n","c","l","u","d","e">>)
k_exclude == PyStr(<<"e","x","c","l","u","d","e">>)
k_ref == PyStr(<<"r","e","f">>)
k_path == PyStr(<<"p","a","t","h">>)
k_lang == PyStr(<<"l","a","n","g">>)
k_maxTokens == PyStr(<<"m","a","x","T","o","k","e","n","s">>)
k_q == PyStr(<<"q">>)
k_pathGlob == PyStr(<<"p","a","t","h","G","l","o","b">>)

\* f"?{parse.urlencode(params)}" if params else ""
QueryIfAny_always(d) == <<"?">> \o urlencode(d)
QueryIfAny(d) == IF d # <<>> THEN <<"?">> \o urlencode(d) ELSE <<>>

\* f"?{parse.urlencode(params)}"
QueryAlways(d) == <<"?">> \o urlencode(d)

list_files_params(include, exclude, ref) ==
    Comprehension(<< <<k_include, include, Truthy(include)>>,
                     <<k_exclude, exclude, Truthy(exclude)>>,
                     <<k_ref, ref, Truthy(ref)>> >>,
                  EmptyDict)

list_files_path(d) == <<"/","f","i","l","e","s">> \o QueryIfAny(d)

list_chunks_params(path_, lang, ref, max_tokens) ==
    Comprehension(<< <<k_path, path_, IsNotNone(path_)>>,
                     <<k_lang, lang, IsNotNone(lang)>>,
                     <<k_ref, ref, IsNotNone(ref)>>,
                     <<k_maxTokens, max_tokens, IsNotNone(max_tokens)>> >>,
                  EmptyDict)

list_chunks_path(d) == <<"/","c","h","u","n","k","s">> \o QueryIfAny(d)

get_file_params(path_, ref) ==
    LET d == DictSet(EmptyDict, k_path, path_) IN
    IF Truthy(ref) THEN DictSet(d, k_ref, ref) ELSE d

get_file_path(d) == <<"/","f","i","l","e">> \o QueryAlways(d)

get_chunk_path(chunk_id, ref) ==
    LET query == IF Truthy(ref) THEN <<"?","r","e","f","=">> \o quote(ref.s) ELSE <<>> IN
    <<"/","c","h","u","n","k","s","/">> \o quote(chunk_id.s) \o query

search_params(query_text, path_glob, ref) ==
    LET d1 == DictSet(EmptyDict, k_q, query_text)
        d2 == IF Truthy(path_glob) THEN DictSet(d1, k_pathGlob, path_glob) ELSE d1
    IN IF Truthy(ref) THEN DictSet(d2, k_ref, ref) ELSE d2

search_path(d) == <<"/","s","e","a","r","c","h">> \o QueryAlways(d)

search_symbols_params(query_text, ref) ==
    LET d1 == IF Truthy(query_text) THEN DictSet(EmptyDict, k_q, query_text) ELSE EmptyDict
    IN IF Truthy(ref) THEN DictSet(d1, k_ref, ref) ELSE d1

search_symbols_path(d) == <<"/","s","e","a","r","c","h","/","s","y","m","b","o","l","s">> \o QueryIfAny(d)

\* url = f"{self.base_url}{path}"
RequestUrl_slash(b, p) ==
    IF b # <<>> /\ b[Len(b)] = "/" /\ p # <<>> /\ p[1] = "/" THEN b \o Tail(p) ELSE b \o p
RequestUrl(b, p) == b \o p

\* headers=self.headers or {}
RequestHeaders(h) == IF h.t = "none" \/ h.items = <<>> THEN <<>> ELSE h.items

NoOutcome == [kind |-> "none"]
Returned(v) == [kind |-> "return", value |-> v]
Raised(e) == [kind |-> "raise", error |-> e]
RaisedStatus(st) == [kind |-> "raise", error |-> "RuntimeError", code |-> st]

\* ------------------------------------------------------------ inputs

MaxTokens == 2
MaxCalls == 2

\* Argument strings: plain, with a space, with path and fragment delimiters,
\* with query delimiters and a character outside ASCII.
Strs == { <<"m","a","i","n">>, <<"a"," ","b">>, <<"a","/","b","?","#">>,
          <<"&","=","%","+",EAcute>> }

RequiredStr == {PyStr(s) : s \in Strs \cup {<<>>}}
OptionalStr == {PyNone} \cup RequiredStr
OptionalInt == {PyNone} \cup {PyInt(6 * n) : n \in 0..MaxTokens}

BaseUrls == { <<"h","t","t","p",":","/","/","h">>, <<"h","t","t","p",":","/","/","h","/">> }
NoHeaders == [t |-> "none"]
HeaderChoices == { NoHeaders, [t |-> "dict", items |-> << <<"Authorization", "tok">> >>] }

Statuses == {200, 399, 400, 404}

\* Response bodies (bytes): empty, {"ok":true}, null, [1, 20], "é", {, a space,
\* and a byte that is not UTF-8.
b_empty == <<>>
b_ok == <<123, 34, 111, 107, 34, 58, 116, 114, 117, 101, 125>>
b_null == <<110, 117, 108, 108>>
b_list == <<91, 49, 44, 32, 50, 48, 93>>
b_str == <<34, 195, 169, 34>>
b_brace == <<123>>
b_space == <<32>>
b_bad == <<255>>
Bodies == {b_empty, b_ok, b_null, b_list, b_str, b_brace, b_space, b_bad}

\* ------------------------------------------------------------ state machine

Init ==
    /\ base_url \in BaseUrls
    /\ headers \in HeaderChoices
    /\ base_url0 = base_url
    /\ headers0 = headers
    /\ completed = 0
    /\ pc = "idle"
    /\ call = [op |-> "none"]
    /\ params = <<>>
    /\ path = <<>>
    /\ url = <<>>
    /\ req_headers = <<>>
    /\ sent = 0
    /\ status = 0
    /\ body = <<>>
    /\ body_read = FALSE
    /\ outcome = NoOutcome

\* _request up to urlopen: build the URL and the Request, issue the GET.
Send_storing(p) ==
    /\ path' = p
    /\ url' = (base_url \o p)
    /\ req_headers' = RequestHeaders(headers)
    /\ sent' = 1
    /\ pc' = "waiting"
    /\ status' = 0
    /\ body' = <<>>
    /\ body_read' = FALSE
    /\ outcome' = NoOutcome
    /\ base_url' = (base_url \o p)
    /\ UNCHANGED <<headers, base_url0, headers0, completed>>
Send(p) ==
    /\ path' = p
    /\ url' = RequestUrl(base_url, p)
    /\ req_headers' = RequestHeaders(headers)
    /\ sent' = 1
    /\ pc' = "waiting"
    /\ status' = 0
    /\ body' = <<>>
    /\ body_read' = FALSE
    /\ outcome' = NoOutcome
    /\ UNCHANGED <<config, completed>>

ListFiles ==
    /\ pc = "idle"
    /\ completed < MaxCalls
    /\ \E include \in OptionalStr, exclude \in OptionalStr, ref \in OptionalStr :
        LET d == list_files_params(include, exclude, ref) IN
        /\ call' = [op |-> "list_files",
                    args |-> [include |-> include, exclude |-> exclude, ref |-> ref]]
        /\ params' = d
        /\ Send(list_files_path(d))

ListChunks ==
    /\ pc = "idle"
    /\ completed < MaxCalls
    /\ \E path_ \in OptionalStr, lang \in OptionalStr, ref \in OptionalStr,
       max_tokens \in OptionalInt :
        LET d == list_chunks_params(path_, lang, ref, max_tokens) IN
        /\ call' = [op |-> "list_chunks",
                    args |-> [path |-> path_, lang |-> lang, ref |-> ref,
                              max_tokens |-> max_tokens]]
        /\ params' = d
        /\ Send(list_chunks_path(d))

GetFile ==
    /\ pc = "idle"
    /\ completed < MaxCalls
    /\ \E path_ \in RequiredStr, ref \in OptionalStr :
        LET d == get_file_params(path_, ref) IN
        /\ call' = [op |-> "get_file", args |-> [path |-> path_, ref |-> ref]]
        /\ params' = d
        /\ Send(get_file_path(d))

GetChunk ==
    /\ pc = "idle"
    /\ completed < MaxCalls
    /\ \E chunk_id \in RequiredStr, ref \in OptionalStr :
        /\ call' = [op |-> "get_chunk", args |-> [chunk_id |-> chunk_id, ref |-> ref]]
        /\ params' = <<>>
        /\ Send(get_chunk_path(chunk_id, ref))

Search ==
    /\ pc = "idle"
    /\ completed < MaxCalls
    /\ \E query_text \in RequiredStr, path_glob \in OptionalStr, ref \in OptionalStr :
        LET d == search_params(query_text, path_glob, ref) IN
        /\ call' = [op |-> "search",
                    args |-> [query_text |-> query_text, path_glob |-> path_glob,
                              ref |-> ref]]
        /\ params' = d
        /\ Send(search_path(d))

SearchSymbols ==
    /\ pc = "idle"
    /\ completed < MaxCalls
    /\ \E query_text \in OptionalStr, ref \in OptionalStr :
        LET d == search_symbols_params(query_text, ref) IN
        /\ call' = [op |-> "search_symbols",
                    args |-> [query_text |-> query_text, ref |-> ref]]
        /\ params' = d
        /\ Send(search_symbols_path(d))

\* resp.status >= 400
IsErrorStatus_gt(st) == st > 400
IsErrorStatus(st) == st >= 400

\* not data
IsEmptyText_never(data) == FALSE
IsEmptyText(data) == data = <<>>

\* raise RuntimeError(f"Request failed: {resp.status}")
RequestFailed_retry(st) ==
    IF sent < 2
    THEN /\ pc' = "waiting" /\ sent' = sent + 1
         /\ body_read' = FALSE /\ outcome' = NoOutcome
    ELSE /\ pc' = "done" /\ sent' = sent
         /\ body_read' = FALSE /\ outcome' = RaisedStatus(st)
RequestFailed(st) ==
    /\ pc' = "done"
    /\ sent' = sent
    /\ body_read' = FALSE
    /\ outcome' = RaisedStatus(st)

\* data = resp.read().decode("utf-8"); None if empty, else json.loads(data)
ReadBody(b) ==
    LET data == Utf8Decode(b) IN
    /\ pc' = "done"
    /\ sent' = sent
    /\ body_read' = TRUE
    /\ outcome' = IF ~data.ok THEN Raised("UnicodeDecodeError")
                  ELSE IF IsEmptyText(data.text) THEN Returned(JNull)
                  ELSE LET v == json_loads(data.text) IN
                       IF v.ok THEN Returned(v.val) ELSE Raised("JSONDecodeError")

\* urlopen returns a response: the rest of _request.
Response ==
    /\ pc = "waiting"
    /\ \E st \in Statuses, b \in Bodies :
        /\ status' = st
        /\ body' = b
        /\ IF IsErrorStatus(st) THEN RequestFailed(st) ELSE ReadBody(b)
        /\ UNCHANGED <<config, completed, call, params, path, url, req_headers>>

\* urlopen raises (no connection, or the opener's own error for the status):
\* the exception leaves _request as it is.
UrlopenRaises ==
    /\ pc = "waiting"
    /\ pc' = "done"
    /\ outcome' = Raised("URLError")
    /\ UNCHANGED <<config, completed, call, params, path, url,
                   req_headers, sent, status, body, body_read>>

\* The call returns to its caller (a value or an exception); its local
\* variables and the response go with it, the client object stays.
Return ==
    /\ pc = "done"
    /\ pc' = "idle"
    /\ call' = [op |-> "none"]
    /\ params' = <<>>
    /\ path' = <<>>
    /\ url' = <<>>
    /\ req_headers' = <<>>
    /\ sent' = 0
    /\ status' = 0
    /\ body' = <<>>
    /\ body_read' = FALSE
    /\ outcome' = NoOutcome
    /\ completed' = completed + 1
    /\ UNCHANGED config

Next ==
    \/ ListFiles
    \/ ListChunks
    \/ GetFile
    \/ GetChunk
    \/ Search
    \/ SearchSymbols
    \/ Response
    \/ UrlopenRaises
    \/ Return

Spec == Init /\ [][Next]_vars

\* ------------------------------------------------------------ reading a path back

\* Position of the first c in s, 0 when there is none.
RECURSIVE IndexFrom(_, _, _)
IndexFrom(s, c, i) ==
    IF i > Len(s) THEN 0 ELSE IF s[i] = c THEN i ELSE IndexFrom(s, c, i + 1)
IndexOf(s, c) == IndexFrom(s, c, 1)

RECURSIVE Split(_, _)
Split(s, c) ==
    LET i == IndexOf(s, c) IN
    IF i = 0 THEN <<s>>
    ELSE <<SubSeq(s, 1, i - 1)>> \o Split(SubSeq(s, i + 1, Len(s)), c)

HasQuery(p) == "?" \in Range(p)
BeforeQuery(p) == IF HasQuery(p) THEN SubSeq(p, 1, IndexOf(p, "?") - 1) ELSE p
AfterQuery(p) == SubSeq(p, IndexOf(p, "?") + 1, Len(p))

\* The name=value pairs of the query string, as records; a segment without "="
\* is no pair (wellformed is FALSE).
QueryPairs(p) ==
    IF ~HasQuery(p) THEN <<>>
    ELSE LET segs == Split(AfterQuery(p), "&") IN
         [i \in 1..Len(segs) |->
            LET e == IndexOf(segs[i], "=") IN
            IF e = 0 THEN [wellformed |-> FALSE, name |-> segs[i], value |-> <<>>]
            ELSE [wellformed |-> TRUE,
                  name |-> SubSeq(segs[i], 1, e - 1),
                  value |-> SubSeq(segs[i], e + 1, Len(segs[i]))]]

Occurrences(p, name) ==
    Cardinality({i \in 1..Len(QueryPairs(p)) : QueryPairs(p)[i].name = name})

HexValue(c) == (CHOOSE d \in 1..16 : HexDigits[d] = c) - 1

\* Percent-decoding: the bytes an escaped text stands for.
RECURSIVE UnquoteBytes(_)
UnquoteBytes(s) ==
    IF s = <<>> THEN <<>>
    ELSE IF s[1] = "%" /\ Len(s) >= 3
         THEN <<16 * HexValue(s[2]) + HexValue(s[3])>> \o UnquoteBytes(SubSeq(s, 4, Len(s)))
         ELSE Utf8(Ord(s[1])) \o UnquoteBytes(Tail(s))

Unquote(s) == Utf8Decode(UnquoteBytes(s))
UnquotePlus(s) == Unquote([i \in 1..Len(s) |-> IF s[i] = "+" THEN " " ELSE s[i]])

\* Each endpoint's query parameters: name in the query, argument of the method.
P(name, arg) == [name |-> name, arg |-> arg]
EndpointParams ==
    [ list_files |-> {P(<<"i","n","c","l","u","d","e">>, "include"), P(<<"e","x","c","l","u","d","e">>, "exclude"),
                      P(<<"r","e","f">>, "ref")},
      list_chunks |-> {P(<<"p","a","t","h">>, "path"), P(<<"l","a","n","g">>, "lang"),
                       P(<<"r","e","f">>, "ref"), P(<<"m","a","x","T","o","k","e","n","s">>, "max_tokens")},
      get_file |-> {P(<<"p","a","t","h">>, "path"), P(<<"r","e","f">>, "ref")},
      get_chunk |-> {P(<<"r","e","f">>, "ref")},
      search |-> {P(<<"q">>, "query_text"), P(<<"p","a","t","h","G","l","o","b">>, "path_glob"),
                  P(<<"r","e","f">>, "ref")},
      search_symbols |-> {P(<<"q">>, "query_text"), P(<<"r","e","f">>, "ref")} ]

RequiredArgs ==
    [ list_files |-> {}, list_chunks |-> {}, get_file |-> {"path"},
      get_chunk |-> {"chunk_id"}, search |-> {"query_text"}, search_symbols |-> {} ]

FixedPath ==
    [ list_files |-> <<"/","f","i","l","e","s">>, list_chunks |-> <<"/","c","h","u","n","k","s">>,
      get_file |-> <<"/","f","i","l","e">>, get_chunk |-> <<"/","c","h","u","n","k","s","/">>,
      search |-> <<"/","s","e","a","r","c","h">>, search_symbols |-> <<"/","s","e","a","r","c","h","/","s","y","m","b","o","l","s">> ]

\* The call has built its URL and issued the request. Nothing changes path,
\* url or call from here until the call returns.
Requested == pc = "waiting"
OptionalParams == {q \in EndpointParams[call.op] : q.arg \notin RequiredArgs[call.op]}
AbsentOrEmpty(v) == v = PyNone \/ v = PyStr(<<>>)

\* The text after /chunks/ and before the query string of a get_chunk path.
ChunkSegment == SubSeq(BeforeQuery(path), Len(FixedPath.get_chunk) + 1, Len(BeforeQuery(path)))

\* ------------------------------------------------------------ claims

\* C1: in every operation, an optional input that is None or the empty string
\* never appears as a parameter of the query string, and an optional input
\* with a present non-empty value appears in it exactly once.
C1_OptionalInputsInQuery ==
    Requested =>
        \A q \in OptionalParams :
            IF AbsentOrEmpty(call.args[q.arg])
            THEN Occurrences(path, q.name) = 0
            ELSE Occurrences(path, q.name) = 1

\* C2: list_chunks with max_tokens=0 requests a URL whose query string has no
\* maxTokens parameter, whatever path, lang and ref are.
C2_ZeroMaxTokensOmitted ==
    (Requested /\ call.op = "list_chunks" /\ call.args.max_tokens = PyInt(0))
        => Occurrences(path, <<"m","a","x","T","o","k","e","n","s">>) = 0

ExpectedOutcome(b) ==
    CASE b = b_empty -> Returned(JNull)
      [] b = b_ok -> Returned(JDict(<< << <<"o","k">>, JBool(TRUE) >> >>))
      [] b = b_null -> Returned(JNull)
      [] b = b_list -> Returned(JList(<<JInt(1), JInt(20)>>))
      [] b = b_str -> Returned(JStr(<<EAcute>>))
      [] b = b_brace -> Raised("JSONDecodeError")
      [] b = b_space -> Raised("JSONDecodeError")
      [] b = b_bad -> Raised("UnicodeDecodeError")

\* C4: with a status below 400 the result is decided by the body alone: an
\* empty body gives None and no parse error, a body that is valid JSON gives
\* the value of that JSON ({"ok":true} gives that object).
C4_BodyDecidesResult ==
    (pc = "done" /\ status > 0 /\ status < 400) =>
        /\ body_read
        /\ outcome = ExpectedOutcome(body)

C4_Witness ==
    /\ pc = "done" /\ status = 200 /\ body = b_empty /\ outcome = Returned(JNull)

\* Every pair of the query string carries an argument of the current call.
PairsComeFromCall ==
    \A i \in 1..Len(QueryPairs(path)) :
        LET pair == QueryPairs(path)[i] IN
        \E q \in EndpointParams[call.op] :
            /\ q.name = pair.name
            /\ call.args[q.arg] # PyNone
            /\ UnquotePlus(pair.value) = [ok |-> TRUE, text |-> ToStr(call.args[q.arg])]

\* C5: after any sequence of calls, successful or failed, base_url and headers
\* equal their construction-time values, and the URL a call requests is made
\* of the stored configuration and that call's own arguments only.
C5_ConfigurationFrozen ==
    /\ base_url = base_url0
    /\ headers = headers0
    /\ Requested =>
         /\ Len(url) = Len(base_url0) + Len(path)
         /\ SubSeq(url, 1, Len(base_url0)) = base_url0
         /\ SubSeq(url, Len(base_url0) + 1, Len(url)) = path
         /\ req_headers = (IF headers0 = NoHeaders THEN <<>> ELSE headers0.items)
         /\ PairsComeFromCall

C5_Witness ==
    /\ completed >= 1 /\ pc = "waiting" /\ call.op = "search_symbols"
    /\ call.args.query_text = PyNone /\ call.args.ref = PyStr(<<"m","a","i","n">>)
    /\ base_url = base_url0 /\ headers = headers0 /\ headers # NoHeaders
    /\ path = <<"/","s","e","a","r","c","h","/","s","y","m","b","o","l","s","?","r","e","f","=","m","a","i","n">>

\* No parameter ends up in the call's parameter mapping (get_chunk keeps no
\* mapping: its only parameter is ref).
NothingIncluded ==
    IF call.op = "get_chunk" THEN ~Truthy(call.args.ref) ELSE params = <<>>

AllArgsNone == \A q \in EndpointParams[call.op] : call.args[q.arg] = PyNone

\* C6: when no parameter ends up in the parameter mapping the requested path
\* has no "?" (list_files() requests /files, search_symbols() requests
\* /search/symbols, get_chunk(id) without ref requests /chunks/{id}), and a
\* "?" is always followed by at least one name=value pair.
C6_NoEmptyQuery ==
    Requested =>
        /\ NothingIncluded => ~HasQuery(path)
        /\ HasQuery(path) =>
             /\ Len(QueryPairs(path)) >= 1
             /\ \A i \in 1..Len(QueryPairs(path)) :
                    QueryPairs(path)[i].wellformed /\ QueryPairs(path)[i].name # <<>>
        /\ (call.op \in {"list_files", "list_chunks", "search_symbols"} /\ AllArgsNone)
             => path = FixedPath[call.op]
        /\ (call.op = "get_chunk" /\ call.args.ref = PyNone)
             => path = FixedPath.get_chunk \o quote(call.args.chunk_id.s)

C6_Witness ==
    /\ pc = "waiting" /\ call.op = "search_symbols" /\ AllArgsNone
    /\ path = <<"/","s","e","a","r","c","h","/","s","y","m","b","o","l","s">>

\* C7: for every chunk id and non-empty ref, get_chunk requests
\* /chunks/{E(id)}?ref={E(ref)}, each value percent-encoded on its own, the
\* encoded id being the single path segment after /chunks/: space, "?", "#"
\* and "/" of the id are escaped.
C7_ChunkIdIsOneSegment ==
    (Requested /\ call.op = "get_chunk" /\ Truthy(call.args.ref)) =>
        /\ SubSeq(path, 1, Len(FixedPath.get_chunk)) = FixedPath.get_chunk
        /\ Range(ChunkSegment) \cap {" ", "?", "#", "/"} = {}
        /\ Unquote(ChunkSegment) = [ok |-> TRUE, text |-> call.args.chunk_id.s]
        /\ Len(QueryPairs(path)) = 1
        /\ QueryPairs(path)[1].name = <<"r","e","f">>
        /\ Unquote(QueryPairs(path)[1].value) = [ok |-> TRUE, text |-> call.args.ref.s]

\* C8: every call issues exactly one GET request and then ends in exactly one
\* outcome, a value (or None) or one failure; no call sends a second request
\* after a failure and none ends without having sent its request.
C8_OneRequestOneOutcome ==
    /\ pc = "idle" => (sent = 0 /\ outcome = NoOutcome)
    /\ pc = "waiting" => (sent = 1 /\ outcome = NoOutcome)
    /\ pc = "done" => (sent = 1 /\ outcome.kind \in {"return", "raise"})

C8_Witness ==
    /\ pc = "done" /\ sent = 1 /\ status = 404 /\ outcome = RaisedStatus(404)

\* C9: every parameter included in a query string has a non-empty value, the
\* required path of get_file and q of search included, for every argument
\* value a caller can pass (the empty string too).
C9_IncludedValuesNonEmpty ==
    Requested =>
        \A i \in 1..Len(QueryPairs(path)) : QueryPairs(path)[i].value # <<>>

\* C10: the requested URL is base_url followed verbatim by the operation's
\* fixed path and its query string, and the query string uses only the
\* parameter names of that endpoint.
C10_UrlShape ==
    Requested =>
        /\ url = base_url0 \o path
        /\ IF call.op = "get_chunk"
           THEN /\ SubSeq(path, 1, Len(FixedPath.get_chunk)) = FixedPath.get_chunk
                /\ Unquote(ChunkSegment) = [ok |-> TRUE, text |-> call.args.chunk_id.s]
           ELSE BeforeQuery(path) = FixedPath[call.op]
        /\ \A i \in 1..Len(QueryPairs(path)) :
               \E q \in EndpointParams[call.op] : q.name = QueryPairs(path)[i].name

C10_Witness ==
    /\ pc = "waiting" /\ call.op = "search"
    /\ base_url = <<"h","t","t","p",":","/","/","h","/">>
    /\ call.args.path_glob = PyStr(<<"a"," ","b">>)
    /\ call.args.query_text = PyStr(<<"&","=","%","+",EAcute>>)
    /\ call.args.ref = PyNone
    /\ url = <<"h","t","t","p",":","/","/","h","/","/","s","e","a","r","c","h","?","q","=","%","2","6","%","3","D","%","2","5","%","2","B","%","C","3","%","A","9","&","p","a","t","h","G","l","o","b","=","a","+","b">>

====
